---- MODULE Spec2Model ----
(***************************************************************************)
(* A model of the SeanStash CLI (src/cli/seanstash.py): the history        *)
(* readers, the filter, the ledger of sent hashes (sent_history.json) and  *)
(* the delivery loop, driven by the three sync entry points of main().     *)
(* Besides the invocations (Spec, SpecTwice, SpecRetry) it has a file      *)
(* system that may cut a save short (SpecInterrupt), a second instance on  *)
(* the same ledger (SpecRace), and the readers and the filter applied on   *)
(* their own (SpecResolve, SpecReaders, SpecFilter).                       *)
(*                                                                         *)
(* Text is modelled as a sequence of one-character strings, so that        *)
(* strip(), split() and the regular-expression searches are computed, not  *)
(* assumed.                                                                *)
(***************************************************************************)
EXTENDS Integers, Sequences, FiniteSets, TLC

(***************************************************************************)
(* Bounds of the model                                                     *)
(***************************************************************************)
\* longest ~/.zsh_history (in lines) an initial state holds
MaxHist == 2
\* largest behavior.batch_size an initial state configures
MaxBatch == 2

(***************************************************************************)
(* Program constants                                                       *)
(***************************************************************************)
\* default of --limit
DefaultLimit == 50
\* the window of get_specific_history_commands
WindowSize == 800
\* characters of the command kept in a snippet title
TitleLen == 50
\* filters.min_length of the default configuration
DefaultMinLength == 3

(***************************************************************************)
(* Text helpers (Python str methods)                                       *)
(***************************************************************************)
Min(a, b) == IF a < b THEN a ELSE b
Max(a, b) == IF a > b THEN a ELSE b

IsSpace(c) == c \in {" ", "\t", "\n", "\r"}
IsDigit(c) == c \in {"0", "1", "2", "3", "4", "5", "6", "7", "8", "9"}

RECURSIVE lstrip(_)
lstrip(s) == IF s # <<>> /\ IsSpace(Head(s)) THEN lstrip(Tail(s)) ELSE s

RECURSIVE rstrip(_)
rstrip(s) ==
    IF s # <<>> /\ IsSpace(s[Len(s)]) THEN rstrip(SubSeq(s, 1, Len(s) - 1)) ELSE s

\* str.strip()
strip(s) == rstrip(lstrip(s))

\* str.lstrip('!')
RECURSIVE lstrip_bang(_)
lstrip_bang(s) == IF s # <<>> /\ Head(s) = "!" THEN lstrip_bang(Tail(s)) ELSE s

\* s.startswith(p)
startswith(s, p) == Len(s) >= Len(p) /\ SubSeq(s, 1, Len(p)) = p

\* c in s
Contains(s, c) == \E k \in 1..Len(s) : s[k] = c

\* position of the first c in s (c occurs in s)
IndexOf(s, c) == CHOOSE k \in 1..Len(s) : s[k] = c /\ \A m \in 1..(k - 1) : s[m] # c

\* s.split(c, 1)[1]
AfterFirst(s, c) == SubSeq(s, IndexOf(s, c) + 1, Len(s))

\* s.split(c): the list of the pieces between the occurrences of c
RECURSIVE split(_, _)
split(s, c) ==
    IF Contains(s, c)
    THEN <<SubSeq(s, 1, IndexOf(s, c) - 1)>> \o split(AfterFirst(s, c), c)
    ELSE <<s>>

\* s[k:] with Python's treatment of a negative or too large k
PyFrom(s, k) ==
    LET start == IF k < 0 THEN Max(0, Len(s) + k) ELSE Min(k, Len(s))
    IN  SubSeq(s, start + 1, Len(s))

\* s[:k] for k >= 0
PyTo(s, k) == SubSeq(s, 1, Min(k, Len(s)))

\* list(dict.fromkeys(s)): first occurrences, in order
RECURSIVE dict_fromkeys(_)
dict_fromkeys(s) ==
    IF s = <<>> THEN <<>>
    ELSE LET init == dict_fromkeys(SubSeq(s, 1, Len(s) - 1))
             last == s[Len(s)]
         IN  IF \E k \in 1..Len(init) : init[k] = last THEN init ELSE Append(init, last)

\* the set of the elements of a sequence
Range(s) == {s[k] : k \in 1..Len(s)}


(***************************************************************************)
(* History readers                                                         *)
(***************************************************************************)
\* a file of the home directory: whether Path.exists(), and its lines
NoFile == [exists |-> FALSE, lines |-> <<>>]
File(lines) == [exists |-> TRUE, lines |-> lines]

\* the candidate files of get_shell_history, in the order they are tried
history_files == <<".zsh_history", ".bash_history", ".history">>

\* one line of the file in get_shell_history: the commands it contributes
recent_line(line) ==
    LET clean_line == strip(line)
    IN  IF clean_line = <<>> THEN <<>>
        ELSE IF startswith(clean_line, <<":", " ">>) /\ Contains(clean_line, ";")
             THEN <<AfterFirst(clean_line, ";")>>
             ELSE <<clean_line>>

\* the commands of the lines, in order (the loop over the lines, by halves)
RECURSIVE recent_lines(_)
recent_lines(lines) ==
    IF lines = <<>> THEN <<>>
    ELSE IF Len(lines) = 1 THEN recent_line(lines[1])
    ELSE LET half == Len(lines) \div 2
         IN  recent_lines(SubSeq(lines, 1, half))
                 \o recent_lines(SubSeq(lines, half + 1, Len(lines)))

\* get_shell_history(limit) over the files of the home directory
get_shell_history(files, limit) ==
    LET existing == {k \in 1..Len(history_files) : files[history_files[k]].exists}
        history_commands ==
            IF existing = {} THEN <<>>
            ELSE LET first == CHOOSE k \in existing : \A m \in existing : k <= m
                     lines == files[history_files[first]].lines
                 IN  recent_lines(PyFrom(lines, -limit))
    IN  IF history_commands # <<>> THEN PyFrom(history_commands, -limit) ELSE <<>>

\* the outcome of `bash -c history`: returncode 0 and the lines of its stdout,
\* or a failure (non-zero returncode, timeout, no bash)
Failed == [ok |-> FALSE, lines |-> <<>>]
Stdout(lines) == [ok |-> TRUE, lines |-> lines]

\* re.match(r'\s*\d+\s+(.*)', line): the group, or nothing when there is no match
session_line(line) ==
    LET a == lstrip(line)
        nd == IF \E k \in 1..Len(a) : ~IsDigit(a[k])
              THEN (CHOOSE k \in 1..Len(a) :
                        ~IsDigit(a[k]) /\ \A m \in 1..(k - 1) : IsDigit(a[m])) - 1
              ELSE Len(a)
        rest == SubSeq(a, nd + 1, Len(a))
    IN  IF nd >= 1 /\ rest # <<>> /\ IsSpace(Head(rest)) THEN <<lstrip(rest)>> ELSE <<>>

RECURSIVE session_lines(_)
session_lines(lines) ==
    IF lines = <<>> THEN <<>> ELSE session_line(Head(lines)) \o session_lines(Tail(lines))

\* get_current_session_history() for a given output of `bash -c history`
get_current_session_history(result) ==
    IF result.ok THEN session_lines(result.lines) ELSE <<>>

\* a reader that takes any line with a ';' for the extended format
specific_line_any(line) ==
    LET l == strip(line)
    IN  IF l = <<>> THEN <<>>
        ELSE IF Contains(l, ";") THEN <<AfterFirst(l, ";")>> ELSE <<l>>

\* one line of ~/.zsh_history in get_specific_history_commands
specific_line(line) ==
    LET l == strip(line)
    IN  IF l = <<>> THEN <<>>
        ELSE IF startswith(l, <<":", " ">>) /\ Contains(l, ";")
             THEN <<AfterFirst(l, ";")>>
             ELSE <<l>>

\* the commands of the lines, in order (the loop over the lines, by halves)
RECURSIVE specific_lines(_)
specific_lines(lines) ==
    IF lines = <<>> THEN <<>>
    ELSE IF Len(lines) = 1 THEN specific_line(lines[1])
    ELSE LET half == Len(lines) \div 2
         IN  specific_lines(SubSeq(lines, 1, half))
                 \o specific_lines(SubSeq(lines, half + 1, Len(lines)))

\* int(s): whether it parses (decimal digits, surrounding whitespace allowed)
IsInt(s) == LET t == strip(s) IN t # <<>> /\ \A k \in 1..Len(t) : IsDigit(t[k])

DigitValue(c) ==
    CASE c = "0" -> 0 [] c = "1" -> 1 [] c = "2" -> 2 [] c = "3" -> 3 [] c = "4" -> 4
      [] c = "5" -> 5 [] c = "6" -> 6 [] c = "7" -> 7 [] c = "8" -> 8 [] c = "9" -> 9

RECURSIVE IntOfDigits(_)
IntOfDigits(t) ==
    IF t = <<>> THEN 0
    ELSE 10 * IntOfDigits(SubSeq(t, 1, Len(t) - 1)) + DigitValue(t[Len(t)])

\* int(s), for s that parses
IntOf(s) == IntOfDigits(strip(s))

\* a window numbered without the clamp at line 1
history_dict_unclamped(all_commands) ==
    LET recent_commands == PyFrom(all_commands, -WindowSize)
        start_line      == Len(all_commands) - WindowSize + 1
    IN  [line_num \in start_line..(start_line + Len(recent_commands) - 1) |->
            recent_commands[line_num - start_line + 1]]

\* history_dict: line number -> command, over the last WindowSize commands
history_dict(all_commands) ==
    LET recent_commands == PyFrom(all_commands, -WindowSize)
        total_commands  == Len(all_commands)
        start_line      == Max(1, total_commands - WindowSize + 1)
    IN  [line_num \in start_line..(start_line + Len(recent_commands) - 1) |->
            recent_commands[line_num - start_line + 1]]

\* a range loop that leaves the end line out: range(lo, hi)
RECURSIVE lookup_range_open(_, _, _)
lookup_range_open(d, lo, hi) ==
    IF lo >= hi THEN <<>>
    ELSE IF lo = hi - 1 THEN (IF lo \in DOMAIN d THEN <<d[lo]>> ELSE <<>>)
    ELSE LET mid == (lo + hi) \div 2
         IN  lookup_range_open(d, lo, mid) \o lookup_range_open(d, mid, hi)

\* [d[i] for i in range(lo, hi + 1) if i in d] (the loop over the line
\* numbers, by halves)
RECURSIVE lookup_range(_, _, _)
lookup_range(d, lo, hi) ==
    IF lo > hi THEN <<>>
    ELSE IF lo = hi THEN (IF lo \in DOMAIN d THEN <<d[lo]>> ELSE <<>>)
    ELSE LET mid == (lo + hi) \div 2
         IN  lookup_range(d, lo, mid) \o lookup_range(d, mid + 1, hi)

\* get_specific_history_commands(history_spec)
get_specific_history_commands(files, history_spec) ==
    LET spec == lstrip_bang(history_spec)
        zsh  == files[".zsh_history"]
    IN  IF ~zsh.exists THEN <<>>
        ELSE LET all_commands == specific_lines(zsh.lines)
                 d            == history_dict(all_commands)
             IN  IF all_commands = <<>> THEN <<>>
                 ELSE IF Contains(spec, "-")
                      THEN LET parts == split(spec, "-")
                           IN  IF Len(parts) = 2 /\ IsInt(parts[1]) /\ IsInt(parts[2])
                               THEN lookup_range(d, IntOf(parts[1]), IntOf(parts[2]))
                               ELSE <<>>
                      ELSE IF IsInt(spec) /\ IntOf(spec) \in DOMAIN d
                           THEN <<d[IntOf(spec)]>>
                           ELSE <<>>

\* what get_specific_history_commands prints of an error: which one and, for a
\* line that is not found, min_line and max_line
Report(error, min_line, max_line) ==
    [error |-> error, min_line |-> min_line, max_line |-> max_line]

specific_error(files, history_spec) ==
    LET spec == lstrip_bang(history_spec)
        zsh  == files[".zsh_history"]
        all_commands == specific_lines(zsh.lines)
        d        == history_dict(all_commands)
        min_line == CHOOSE k \in DOMAIN d : \A m \in DOMAIN d : k <= m
        max_line == CHOOSE k \in DOMAIN d : \A m \in DOMAIN d : k >= m
    IN  IF ~zsh.exists THEN Report(".zsh_history file not found", 0, 0)
        ELSE IF all_commands = <<>>
             THEN Report("No commands found in zsh history", 0, 0)
             ELSE IF Contains(spec, "-")
                  THEN LET parts == split(spec, "-")
                       IN  IF Len(parts) = 2 /\ IsInt(parts[1]) /\ IsInt(parts[2])
                           THEN Report("none", 0, 0)
                           ELSE Report("Invalid range format", 0, 0)
                  ELSE IF ~IsInt(spec) THEN Report("Invalid history number", 0, 0)
                       ELSE IF IntOf(spec) \in DOMAIN d THEN Report("none", 0, 0)
                            ELSE Report("History line not found", min_line, max_line)

(***************************************************************************)
(* filter_commands                                                         *)
(***************************************************************************)
\* the characters of the modelled texts; a character's code is its position
Alphabet ==
    <<" ", ";", ":", "!", "-", ".", "*", "0", "1", "2", "3", "9",
      "a", "c", "d", "g", "i", "l", "m", "n", "o", "p", "s", "t", "x", "C", "D">>

Code(c) == CHOOSE k \in 1..Len(Alphabet) : Alphabet[k] = c

\* hashlib.md5(cmd.encode()).hexdigest(): a digest of the bytes of cmd, taken
\* to be collision-free (a positional code of the text)
RECURSIVE md5(_)
md5(cmd) ==
    IF cmd = <<>> THEN 0
    ELSE md5(SubSeq(cmd, 1, Len(cmd) - 1)) * (Len(Alphabet) + 1) + Code(cmd[Len(cmd)])

\* re.IGNORECASE: the case-folded character
lower(c) == CASE c = "C" -> "c" [] c = "D" -> "d" [] OTHER -> c

\* whether pattern atom a (a literal or '.') matches character c
atom_matches(a, c) == a = "." \/ lower(a) = lower(c)

\* whether the pattern (literals, '.', and '*' after an atom) matches a prefix of s
RECURSIVE match_here(_, _)
match_here(p, s) ==
    IF p = <<>> THEN TRUE
    ELSE IF Len(p) >= 2 /\ p[2] = "*"
         THEN \E k \in 0..Len(s) :
                 /\ \A m \in 1..k : atom_matches(p[1], s[m])
                 /\ match_here(SubSeq(p, 3, Len(p)), SubSeq(s, k + 1, Len(s)))
         ELSE /\ s # <<>>
              /\ atom_matches(p[1], s[1])
              /\ match_here(Tail(p), Tail(s))

\* re.search(pattern, cmd, re.IGNORECASE) is not None
re_search(pattern, cmd) ==
    \E k \in 0..Len(cmd) : match_here(pattern, SubSeq(cmd, k + 1, Len(cmd)))

\* the value of a record's working_dir key when the key is absent
NoDir == "unknown directory"

\* a length test that also drops the commands of exactly min_length
too_short_inclusive(cmd, min_length) == Len(cmd) <= min_length

\* len(cmd) < min_length
too_short(cmd, min_length) == Len(cmd) < min_length

\* a record whose hash takes the working directory in
make_cmd_data_salted(cmd, cfg, now, cwd) ==
    [command     |-> cmd,
     hash        |-> md5(cmd) + (IF cwd = "/tmp" THEN 1 ELSE 0),
     timestamp   |-> now,
     working_dir |-> IF cfg.include_working_dir THEN cwd ELSE NoDir]

\* the record made of a command that is kept
make_cmd_data(cmd, cfg, now, cwd) ==
    [command     |-> cmd,
     hash        |-> md5(cmd),
     timestamp   |-> now,
     working_dir |-> IF cfg.include_working_dir THEN cwd ELSE NoDir]

\* filter_commands(commands) under a configuration, at a time, in a directory
RECURSIVE filter_commands(_, _, _, _)
filter_commands(commands, cfg, now, cwd) ==
    IF commands = <<>> THEN <<>>
    ELSE LET cmd  == strip(Head(commands))
             rest == filter_commands(Tail(commands), cfg, now, cwd)
             skip == \E k \in 1..Len(cfg.exclude_patterns) :
                         re_search(strip(cfg.exclude_patterns[k]), cmd)
         IN  IF too_short(cmd, cfg.min_length) \/ skip THEN rest
             ELSE <<make_cmd_data(cmd, cfg, now, cwd)>> \o rest

(***************************************************************************)
(* The ledger file sent_history.json                                       *)
(***************************************************************************)
\* kind: "absent" (no file), "corrupt" (not the JSON object the loader needs)
\* or "json"
AbsentLedger  == [kind |-> "absent",  sent_hashes |-> {}, last_updated |-> "never"]
CorruptLedger == [kind |-> "corrupt", sent_hashes |-> {}, last_updated |-> "never"]

\* load_sent_history() reading a key the file does not have
load_wrong_key(file) == {}

\* load_sent_history()
load_sent_history(file) == IF file.kind = "json" THEN file.sent_hashes ELSE {}

\* the file save_sent_history(hashes) leaves
save_sent_history(hashes, now) ==
    [kind |-> "json", sent_hashes |-> hashes, last_updated |-> now]

\* where a call of save_sent_history is cut short, by the end of the process or
\* by a write that raises: nowhere, after open(history_file, 'w') has emptied
\* the file, or inside json.dump when a part of the text has reached the file
NoFault == "none"
Faults  == {NoFault, "open", "dump"}

\* the file that open(history_file, 'w') alone leaves: it exists and is empty
TruncatedLedger == [kind |-> "truncated", sent_hashes |-> {}, last_updated |-> "never"]

\* the file that holds a proper prefix of the JSON text
PartialLedger == [kind |-> "partial", sent_hashes |-> {}, last_updated |-> "never"]

\* the file a call of save_sent_history(hashes) leaves when it is cut short at `at`
save_cut_short(hashes, now, at) ==
    CASE at = "open" -> TruncatedLedger
      [] at = "dump" -> PartialLedger
      [] OTHER       -> save_sent_history(hashes, now)

\* the hashes the ledger file stores
Stored(file) == IF file.kind = "json" THEN file.sent_hashes ELSE {}

(***************************************************************************)
(* send_commands_to_seanstash: snippets and batches                        *)
(***************************************************************************)
\* the snippet posted for one record
snippet_of(cmd_data) ==
    [title       |-> <<PyTo(cmd_data.command, TitleLen), Len(cmd_data.command) > TitleLen>>,
     description |-> <<cmd_data.timestamp, cmd_data.working_dir>>,
     code        |-> cmd_data.command]

snippets_of(commands) == [k \in 1..Len(commands) |-> snippet_of(commands[k])]

\* a slice one snippet too long
batch_at_overlap(snippets, i, batch_size) ==
    SubSeq(snippets, i + 1, Min(i + batch_size + 1, Len(snippets)))

\* snippets[i:i + batch_size]
batch_at(snippets, i, batch_size) ==
    SubSeq(snippets, i + 1, Min(i + batch_size, Len(snippets)))

\* response.status_code in [200, 201]
is_success(status_code) == status_code \in {200, 201}


(***************************************************************************)
(* The environments and inputs of the model                                *)
(***************************************************************************)
GIT     == <<"g", "i", "t">>
TOP     == <<"t", "o", "p">>
LS      == <<"l", "s">>
\* an extended-format line whose command is " git"
EXT_GIT == <<":", " ", "1", ":", "0", ";", " ", "g", "i", "t">>

\* the lines a modelled ~/.zsh_history is made of
RawLines == {GIT, TOP, LS, EXT_GIT}

BoundedSeq(S, n) == UNION {[1..k -> S] : k \in 0..n}

\* the values of --limit
Limits == {1, DefaultLimit}

\* the history specifications given on the command line
HistorySpecs ==
    {<<"!", "1">>, <<"!", "1", "-", "2">>, <<"!", "2", "-", "1">>, <<"!", "9">>,
     <<"!", "x">>, <<"!", "1", "-", "x">>}

\* the command strings given on the command line
CommandStrings == {<<"g", "i", "t", " ">>, <<"c", "d", " ", "x">>, <<"x", " ">>}

\* the instants datetime.now() returns
Times == {"T1"}

\* os.getcwd()
Cwd == "/home/user"

\* the statuses the server answers with
Statuses == {200, 201, 204, 401}

\* the entry of `responses` for a post that raised RequestException
RequestException == 0

(***************************************************************************)
(* State                                                                   *)
(***************************************************************************)
VARIABLES
    home,               \* the history files of the home directory
    session,            \* what `bash -c history` gives
    config,             \* the configuration
    fault,              \* where the file system cuts a save of the ledger short
    other,              \* a second instance of the program, on the same files
    call,               \* the function applied on its own, and its arguments
    returned,           \* what that call returned
    earlier,            \* the call before it, with what it returned
    ledger,             \* the file sent_history.json
    pc,                 \* "idle", "sending" (inside the delivery loop) or "done"
    mode,               \* the handler running: "sync", "specific" or "command"
    argument,           \* the positional argument of the command line
    force,              \* --force
    dry_run,            \* behavior.dry_run, after main's override
    limit,              \* --limit (run_sync)
    now,                \* datetime.now() of the invocation
    filtered_commands,  \* the records filter_commands returned
    new_commands,       \* the records handed to send_commands_to_seanstash
    sent_hashes,        \* the handler's local set
    i,                  \* the delivery loop's batch offset
    j,                  \* the position inside the batch
    batches,            \* the batches the loop has begun
    posted,             \* the snippets passed to requests.post, in order
    responses,          \* the outcome of each post
    success_count,
    success,            \* what send_commands_to_seanstash returned
    saved,              \* whether the invocation called save_sent_history
    ledger_before,      \* the ledger file when the invocation began
    prev                \* a summary of the invocation before this one

vars ==
    <<home, session, config, fault, other, call, returned, earlier, ledger, pc,
      mode, argument, force, dry_run, limit, now, filtered_commands,
      new_commands, sent_hashes, i, j, batches, posted, responses, success_count,
      success, saved, ledger_before, prev>>

\* what no step of the invocation changes: its environment
env == <<home, session, config, fault, other, call, returned, earlier>>

\* what is the invocation's own
local ==
    <<pc, mode, argument, force, dry_run, limit, now, filtered_commands, new_commands,
      sent_hashes, i, j, batches, posted, responses, success_count, success, saved,
      ledger_before, prev>>

\* the second instance before it is started
NoOther ==
    [pc |-> "idle", force |-> FALSE, dry_run |-> FALSE, now |-> "T0",
     new_commands |-> <<>>, sent_hashes |-> {}, saved |-> FALSE]

\* `prev` when no invocation has ended yet
NoPrev == [kind |-> "none", limit |-> 0, dry_run |-> FALSE, saved |-> FALSE,
           offered |-> FALSE, uncounted_2xx |-> FALSE]

\* the home directories of the initial states: any ~/.zsh_history of at most
\* MaxHist lines with no other history file, a ~/.bash_history beside a
\* ~/.zsh_history, a ~/.bash_history alone, and no history file at all
Home(zsh, bash) ==
    [f \in Range(history_files) |->
        CASE f = ".zsh_history"  -> zsh
          [] f = ".bash_history" -> bash
          [] OTHER -> NoFile]

Homes ==
    {Home(File(l), NoFile) : l \in BoundedSeq(RawLines, MaxHist)}
        \cup {Home(File(<<GIT>>), File(<<TOP>>)), Home(NoFile, File(<<TOP>>)),
              Home(NoFile, NoFile)}

\* the configuration of the initial states
Config(b) ==
    [min_length          |-> DefaultMinLength,
     exclude_patterns    |-> <<<<"c", "d">>, <<"l", "s">>>>,
     include_working_dir |-> TRUE,
     batch_size          |-> b,
     dry_run             |-> FALSE]

\* no function has been applied on its own
NoCall == [fn |-> "none"]

\* no invocation has begun, in either instance
Idle ==
    /\ pc = "idle"
    /\ mode = "none"
    /\ argument = <<>>
    /\ force = FALSE
    /\ dry_run = FALSE
    /\ limit = 0
    /\ now = "T0"
    /\ filtered_commands = <<>>
    /\ new_commands = <<>>
    /\ sent_hashes = {}
    /\ i = 0
    /\ j = 0
    /\ batches = <<>>
    /\ posted = <<>>
    /\ responses = <<>>
    /\ success_count = 0
    /\ success = "unset"
    /\ saved = FALSE
    /\ ledger_before = ledger
    /\ prev = NoPrev
    /\ other = NoOther
    /\ call = NoCall
    /\ returned = <<>>
    /\ earlier = NoCall

\* the state after construction, but for the faults of the file system
Boot ==
    /\ home \in Homes
    /\ session \in {Failed, Stdout(<<<<" ", "1", " ", " ", "m", "a", "n">>>>)}
    /\ \E b \in 1..MaxBatch : config = Config(b)
    /\ ledger \in {AbsentLedger, CorruptLedger, save_sent_history({md5(GIT)}, "T0")}
    /\ Idle

Init == Boot /\ fault = NoFault

\* the state after construction on a file system that may cut a save short
InitInterrupt == Boot /\ fault \in Faults

(***************************************************************************)
(* The handlers                                                            *)
(***************************************************************************)
\* a partition that filters by the ledger even with --force
partition_no_force(filtered, f, file) ==
    LET loaded == load_sent_history(file)
    IN  [sent_hashes  |-> IF f THEN {} ELSE loaded,
         new_commands |-> SelectSeq(filtered, LAMBDA cmd : cmd.hash \notin loaded)]

\* the partition of the filtered records into sent_hashes and new_commands
partition(filtered, f, file) ==
    IF ~f
    THEN LET loaded == load_sent_history(file)
         IN  [sent_hashes  |-> loaded,
              new_commands |-> SelectSeq(filtered, LAMBDA cmd : cmd.hash \notin loaded)]
    ELSE [sent_hashes |-> {}, new_commands |-> filtered]

\* a test that forgets the dry-run flag
should_save_dry(ok, dry) == ok

\* a test that forgets what send_commands_to_seanstash returned
should_save_unsent(ok, dry) == ~dry

\* the handler's test before it updates the ledger
should_save(ok, dry) == ok /\ ~dry

\* an update that saves the loaded hashes without the new ones
update_without_new(ok, dry, hashes, commands, file, t) ==
    IF should_save(ok, dry) THEN save_sent_history(hashes, t) ELSE file

\* an update that reads the file again and merges what it finds
update_merging(ok, dry, hashes, commands, file, t) ==
    IF should_save(ok, dry)
    THEN save_cut_short(load_sent_history(file) \cup hashes
                            \cup {commands[k].hash : k \in 1..Len(commands)},
                        t, fault)
    ELSE file

\* an update that writes only over a ledger file it could read
update_existing_only(ok, dry, hashes, commands, file, t) ==
    IF should_save(ok, dry) /\ file.kind = "json"
    THEN save_cut_short(hashes \cup {commands[k].hash : k \in 1..Len(commands)},
                        t, fault)
    ELSE file

\* the handler's update of the ledger file after send_commands_to_seanstash
update_sent_history(ok, dry, hashes, commands, file, t) ==
    IF should_save(ok, dry)
    THEN save_cut_short(hashes \cup {commands[k].hash : k \in 1..Len(commands)},
                        t, fault)
    ELSE file

\* all the batches of range(0, len(snippets), batch_size)
all_batches(snippets, batch_size) ==
    [k \in 1..((Len(snippets) + batch_size - 1) \div batch_size) |->
        batch_at(snippets, (k - 1) * batch_size, batch_size)]

\* a count of the batches, not of their commands
dry_run_count_batches(bs) == Len(bs)

\* success_count after the dry-run loop: += len(batch) for each batch
RECURSIVE dry_run_count(_)
dry_run_count(bs) == IF bs = <<>> THEN 0 ELSE Len(Head(bs)) + dry_run_count(Tail(bs))

\* send_commands_to_seanstash has returned ok: the rest of the handler
finish(ok, dry, hashes, commands, t) ==
    /\ pc' = "done"
    /\ success' = IF ok THEN "True" ELSE "False"
    /\ saved' = should_save(ok, dry)
    /\ ledger' = update_sent_history(ok, dry, hashes, commands, ledger, t)

\* a handler from its partition on: it returns at once when nothing is new, runs
\* the delivery loop without posting in dry-run mode, and otherwise enters
\* the delivery loop
begin(m, arg, lim, f, d, t, filtered) ==
    LET part == partition(filtered, f, ledger)
        dry  == config.dry_run \/ d
        snippets == snippets_of(part.new_commands)
    IN  /\ pc = "idle"
        /\ mode' = m
        /\ argument' = arg
        /\ limit' = lim
        /\ force' = f
        /\ dry_run' = dry
        /\ now' = t
        /\ filtered_commands' = filtered
        /\ new_commands' = part.new_commands
        /\ sent_hashes' = part.sent_hashes
        /\ ledger_before' = ledger
        /\ posted' = <<>>
        /\ responses' = <<>>
        /\ i' = 0
        /\ j' = 0
        /\ UNCHANGED <<env, prev>>
        /\ IF part.new_commands = <<>>
           THEN /\ pc' = "done"
                /\ success' = "unset"
                /\ success_count' = 0
                /\ batches' = <<>>
                /\ saved' = FALSE
                /\ ledger' = ledger
           ELSE IF dry
                THEN LET bs    == all_batches(snippets, config.batch_size)
                         count == dry_run_count(bs)
                     IN  /\ batches' = bs
                         /\ success_count' = count
                         /\ finish(count > 0, dry, part.sent_hashes, part.new_commands, t)
                ELSE /\ pc' = "sending"
                     /\ success' = "unset"
                     /\ success_count' = 0
                     /\ batches' = <<batch_at(snippets, 0, config.batch_size)>>
                     /\ saved' = FALSE
                     /\ ledger' = ledger

\* main: seanstash sync --limit lim [--force] [--dry-run]
run_sync(lim, f, d, t) ==
    LET history_commands == get_shell_history(home, lim)
        session_commands == get_current_session_history(session)
        all_commands     == dict_fromkeys(history_commands \o session_commands)
    IN  begin("sync", <<"s", "y", "n", "c">>, lim, f, d, t,
              filter_commands(all_commands, config, t, Cwd))

\* a handler that falls back on the recent history when the specification
\* gives no command
run_specific_sync_fallback(history_spec, f, d, t) ==
    LET specific_commands == get_specific_history_commands(home, history_spec)
        commands == IF specific_commands = <<>>
                    THEN get_shell_history(home, DefaultLimit)
                    ELSE specific_commands
    IN  /\ startswith(history_spec, <<"!">>)
        /\ begin("specific", history_spec, 0, f, d, t,
                 filter_commands(commands, config, t, Cwd))

\* main: seanstash '!N' or '!N-M' [--force] [--dry-run]
run_specific_sync(history_spec, f, d, t) ==
    LET specific_commands == get_specific_history_commands(home, history_spec)
    IN  /\ startswith(history_spec, <<"!">>)
        /\ begin("specific", history_spec, 0, f, d, t,
                 filter_commands(specific_commands, config, t, Cwd))

\* the characters of the alphabet that make main take its argument for a
\* command string
SpecialChars == {" ", ";"}

\* a handler that makes the record of its command string itself
run_command_sync_unfiltered(command_string, f, d, t) ==
    /\ ~startswith(command_string, <<"!">>)
    /\ \E k \in 1..Len(command_string) : command_string[k] \in SpecialChars
    /\ begin("command", command_string, 0, f, d, t,
             <<make_cmd_data(strip(command_string), config, t, Cwd)>>)

\* main: seanstash "<command string>" [--force] [--dry-run]
run_command_sync(command_string, f, d, t) ==
    /\ ~startswith(command_string, <<"!">>)
    /\ \E k \in 1..Len(command_string) : command_string[k] \in SpecialChars
    /\ begin("command", command_string, 0, f, d, t,
             filter_commands(<<command_string>>, config, t, Cwd))

(***************************************************************************)
(* The delivery loop of send_commands_to_seanstash                         *)
(***************************************************************************)
\* the snippet the loop is about to post
current_snippet ==
    batch_at(snippets_of(new_commands), i, config.batch_size)[j + 1]

\* the loop after a post that returned: the next snippet of the batch, the next
\* batch, or the end of the loop and the rest of the handler
advance(count) ==
    LET snippets == snippets_of(new_commands)
        batch    == batch_at(snippets, i, config.batch_size)
    IN  /\ success_count' = count
        /\ IF j + 1 < Len(batch)
           THEN /\ j' = j + 1
                /\ UNCHANGED <<i, batches, pc, success, saved, ledger>>
           ELSE IF i + config.batch_size < Len(snippets)
                THEN /\ i' = i + config.batch_size
                     /\ j' = 0
                     /\ batches' = Append(batches,
                            batch_at(snippets, i + config.batch_size, config.batch_size))
                     /\ UNCHANGED <<pc, success, saved, ledger>>
                ELSE /\ finish(count > 0, dry_run, sent_hashes, new_commands, now)
                     /\ UNCHANGED <<i, j, batches>>

\* an exception caught per item: the loop goes on
abort_continues == advance(success_count)

\* the loop after a post that raised RequestException: return False, and the
\* rest of the handler
abort ==
    /\ finish(FALSE, dry_run, sent_hashes, new_commands, now)
    /\ UNCHANGED <<i, j, batches, success_count>>

\* a loop that breaks at the first response it does not count
post_response_break(status_code) ==
    /\ pc = "sending"
    /\ posted' = Append(posted, current_snippet)
    /\ responses' = Append(responses, status_code)
    /\ IF is_success(status_code)
       THEN advance(success_count + 1)
       ELSE /\ finish(success_count > 0, dry_run, sent_hashes, new_commands, now)
            /\ UNCHANGED <<i, j, batches, success_count>>
    /\ UNCHANGED <<env, mode, argument, force, dry_run, limit, now, filtered_commands,
                   new_commands, sent_hashes, ledger_before, prev>>

\* requests.post returns a response with the given status
post_response(status_code) ==
    /\ pc = "sending"
    /\ posted' = Append(posted, current_snippet)
    /\ responses' = Append(responses, status_code)
    /\ advance(IF is_success(status_code) THEN success_count + 1 ELSE success_count)
    /\ UNCHANGED <<env, mode, argument, force, dry_run, limit, now, filtered_commands,
                   new_commands, sent_hashes, ledger_before, prev>>

\* requests.post raises RequestException
post_exception ==
    /\ pc = "sending"
    /\ posted' = Append(posted, current_snippet)
    /\ responses' = Append(responses, RequestException)
    /\ abort
    /\ UNCHANGED <<env, mode, argument, force, dry_run, limit, now, filtered_commands,
                   new_commands, sent_hashes, ledger_before, prev>>

\* the process ends: what was scoped to the invocation is gone
exit ==
    /\ pc = "done"
    /\ pc' = "idle"
    /\ mode' = "none"
    /\ argument' = <<>>
    /\ force' = FALSE
    /\ dry_run' = FALSE
    /\ limit' = 0
    /\ now' = "T0"
    /\ filtered_commands' = <<>>
    /\ new_commands' = <<>>
    /\ sent_hashes' = {}
    /\ i' = 0
    /\ j' = 0
    /\ batches' = <<>>
    /\ posted' = <<>>
    /\ responses' = <<>>
    /\ success_count' = 0
    /\ success' = "unset"
    /\ saved' = FALSE
    /\ ledger_before' = ledger
    /\ UNCHANGED <<env, ledger>>

(***************************************************************************)
(* A second instance, started as seanstash "<command string>"              *)
(***************************************************************************)
\* the instants datetime.now() returns in the second instance
OtherTimes == {"T2"}

\* run_command_sync in the second instance, up to its post: it returns at once
\* when the command is filtered out or already sent, and runs the delivery
\* loop without posting, and without saving, in dry-run mode
other_run_command_sync(command_string, f, d, t) ==
    LET filtered == filter_commands(<<command_string>>, config, t, Cwd)
        part     == partition(filtered, f, ledger)
        dry      == config.dry_run \/ d
    IN  /\ other.pc = "idle"
        /\ ~startswith(command_string, <<"!">>)
        /\ \E k \in 1..Len(command_string) : command_string[k] \in SpecialChars
        /\ other' = [pc           |-> IF part.new_commands = <<>> \/ dry
                                      THEN "done" ELSE "sending",
                     force        |-> f,
                     dry_run      |-> dry,
                     now          |-> t,
                     new_commands |-> part.new_commands,
                     sent_hashes  |-> part.sent_hashes,
                     saved        |-> FALSE]
        /\ UNCHANGED <<home, session, config, fault, call, returned, earlier, ledger, local>>

\* requests.post returns in the second instance: its one snippet is answered,
\* the loop ends, and the handler updates the ledger
other_post_response(status_code) ==
    LET ok == is_success(status_code)
    IN  /\ other.pc = "sending"
        /\ other' = [other EXCEPT !.pc = "done",
                                  !.saved = should_save(ok, other.dry_run)]
        /\ ledger' = update_sent_history(ok, other.dry_run, other.sent_hashes,
                                         other.new_commands, ledger, other.now)
        /\ UNCHANGED <<home, session, config, fault, call, returned, earlier, local>>

\* requests.post raises in the second instance: return False, nothing is saved
other_post_exception ==
    /\ other.pc = "sending"
    /\ other' = [other EXCEPT !.pc = "done"]
    /\ UNCHANGED <<home, session, config, fault, call, returned, earlier, ledger, local>>

(***************************************************************************)
(* get_specific_history_commands applied on its own                        *)
(***************************************************************************)
\* the longest numbered history of the initial states, in commands
MaxTotal == 899

DigitChar(n) == CHOOSE c \in {"0", "1", "2", "3", "4", "5", "6", "7", "8", "9"} :
                    DigitValue(c) = n

\* str(n), for n >= 0
RECURSIVE str(_)
str(n) == IF n < 10 THEN <<DigitChar(n)>> ELSE Append(str(n \div 10), DigitChar(n % 10))

\* a ~/.zsh_history whose k-th command is the text of k: a blank line, then
\* one line for each command, the odd ones plain and the even ones in the
\* extended format
numbered_line(k) ==
    IF k % 2 = 0 THEN <<":", " ", "1", ":", "0", ";">> \o str(k) ELSE str(k)

numbered_history(total) == <<<<" ">>>> \o [k \in 1..total |-> numbered_line(k)]

\* the numbers of commands of those histories
Totals == {1, 2, WindowSize - 1, WindowSize, WindowSize + 1, MaxTotal}

LongHomes == {Home(File(numbered_history(total)), NoFile) : total \in Totals}

\* the line numbers asked for
AskedLines == {0, 1, 2, 99, 100, 150, 152, 800, 801, 899, 900}

InitResolve ==
    /\ home \in LongHomes
    /\ session = Failed
    /\ config = Config(1)
    /\ fault = NoFault
    /\ ledger = AbsentLedger
    /\ Idle

\* get_specific_history_commands('!start-end')
resolve_range(start, end) ==
    LET history_spec == <<"!">> \o str(start) \o <<"-">> \o str(end)
    IN  /\ call.fn = "none"
        /\ call' = [fn |-> "range", history_spec |-> history_spec,
                    start |-> start, end |-> end]
        /\ returned' = [commands |-> get_specific_history_commands(home, history_spec),
                        report   |-> specific_error(home, history_spec)]
        /\ UNCHANGED <<home, session, config, fault, other, earlier, ledger, local>>

\* get_specific_history_commands('!line_num')
resolve_single(line_num) ==
    LET history_spec == <<"!">> \o str(line_num)
    IN  /\ call.fn = "none"
        /\ call' = [fn |-> "single", history_spec |-> history_spec,
                    line_num |-> line_num]
        /\ returned' = [commands |-> get_specific_history_commands(home, history_spec),
                        report   |-> specific_error(home, history_spec)]
        /\ UNCHANGED <<home, session, config, fault, other, earlier, ledger, local>>

\* the history_dict that get_specific_history_commands builds of the file
index_history ==
    /\ call.fn = "none"
    /\ home[".zsh_history"].exists
    /\ specific_lines(home[".zsh_history"].lines) # <<>>
    /\ call' = [fn |-> "history_dict"]
    /\ returned' = history_dict(specific_lines(home[".zsh_history"].lines))
    /\ UNCHANGED <<home, session, config, fault, other, earlier, ledger, local>>

NextResolve ==
    \/ \E start \in AskedLines, end \in AskedLines : resolve_range(start, end)
    \/ \E line_num \in AskedLines : resolve_single(line_num)
    \/ index_history

SpecResolve == InitResolve /\ [][NextResolve]_vars

(***************************************************************************)
(* filter_commands applied on its own                                      *)
(***************************************************************************)
\* the longest list of commands given to filter_commands
MaxCommands == 2

\* the commands given to it
FilterTexts ==
    {GIT, <<" ", "g", "i", "t", " ">>, LS, <<"a", " ", "C", "D">>}

\* the configurations it runs under: the one of the initial states; one with
\* a shorter min_length and a pattern written in upper case between blanks;
\* one with a pattern that is a regular expression
FilterConfigs ==
    {Config(1),
     [Config(1) EXCEPT !.min_length = 1,
                       !.exclude_patterns = <<<<" ", "C", "D", " ">>>>,
                       !.include_working_dir = FALSE],
     [Config(1) EXCEPT !.min_length = 2,
                       !.exclude_patterns = <<<<"g", ".", "*", "t">>>>]}

\* when and where the calls are made: datetime.now() and os.getcwd()
FilterContexts == {[now |-> "T1", cwd |-> Cwd], [now |-> "T2", cwd |-> "/tmp"]}

InitFilter ==
    /\ home = Home(NoFile, NoFile)
    /\ session = Failed
    /\ config = Config(1)
    /\ fault = NoFault
    /\ ledger = AbsentLedger
    /\ Idle

\* filter_commands(commands), with config.ini holding cfg, at time t in the
\* directory cwd; at most two calls are made, and the first is remembered
apply_filter(commands, cfg, t, cwd) ==
    /\ earlier.fn = "none"
    /\ earlier' = IF call.fn = "none" THEN earlier
                  ELSE [call EXCEPT !.fn = "earlier"]
    /\ config' = cfg
    /\ call' = [fn |-> "filter_commands", commands |-> commands, config |-> cfg,
                now |-> t, cwd |-> cwd,
                returned |-> filter_commands(commands, cfg, t, cwd)]
    /\ returned' = filter_commands(commands, cfg, t, cwd)
    /\ UNCHANGED <<home, session, fault, other, ledger, local>>

NextFilter ==
    \E commands \in BoundedSeq(FilterTexts, MaxCommands), cfg \in FilterConfigs,
       context \in FilterContexts :
        apply_filter(commands, cfg, context.now, context.cwd)

SpecFilter == InitFilter /\ [][NextFilter]_vars

(***************************************************************************)
(* The history readers applied on their own                                *)
(***************************************************************************)
\* the lines of the history files: plain, ended by a newline, blank, in the
\* extended format, in the extended format with nothing after the ';', with
\* the prefix of the extended format and no ';', with a ';' and no such prefix
ReaderLines ==
    {GIT, <<"t", "o", "p", "\n">>, <<" ", "\t", "\n">>, EXT_GIT,
     <<":", " ", "1", ";">>, <<":", " ", "x">>, <<":", ";", "l", "s">>}

\* the home directories: a ~/.zsh_history of at most MaxHist lines, and a
\* ~/.bash_history read because there is no ~/.zsh_history
ReaderHomes ==
    {Home(File(l), NoFile) : l \in BoundedSeq(ReaderLines, MaxHist)}
        \cup {Home(NoFile, File(<<GIT, TOP>>)), Home(NoFile, NoFile)}

\* the values of limit
ReadLimits == {0, 1, 2, DefaultLimit}

InitReaders ==
    /\ home \in ReaderHomes
    /\ session = Failed
    /\ config = Config(1)
    /\ fault = NoFault
    /\ ledger = AbsentLedger
    /\ Idle

\* get_shell_history(lim)
read_recent(lim) ==
    /\ call.fn = "none"
    /\ call' = [fn |-> "get_shell_history", limit |-> lim]
    /\ returned' = get_shell_history(home, lim)
    /\ UNCHANGED <<home, session, config, fault, other, earlier, ledger, local>>

\* the body of the loop over the lines, in each of the two readers
parse_line(line) ==
    /\ call.fn = "none"
    /\ call' = [fn |-> "line", line |-> line]
    /\ returned' = [recent |-> recent_line(line), specific |-> specific_line(line)]
    /\ UNCHANGED <<home, session, config, fault, other, earlier, ledger, local>>

NextReaders ==
    \/ \E lim \in ReadLimits : read_recent(lim)
    \/ \E line \in ReaderLines : parse_line(line)

SpecReaders == InitReaders /\ [][NextReaders]_vars

(***************************************************************************)
(* Specifications                                                          *)
(***************************************************************************)
\* one invocation of the command line
Invoke ==
    \/ \E lim \in Limits, f \in BOOLEAN, d \in BOOLEAN, t \in Times :
          run_sync(lim, f, d, t)
    \/ \E history_spec \in HistorySpecs, f \in BOOLEAN, d \in BOOLEAN, t \in Times :
          run_specific_sync(history_spec, f, d, t)
    \/ \E command_string \in CommandStrings, f \in BOOLEAN, d \in BOOLEAN, t \in Times :
          run_command_sync(command_string, f, d, t)

\* one post of the delivery loop
Deliver ==
    \/ \E status_code \in Statuses : post_response(status_code)
    \/ post_exception

Next ==
    \/ Invoke
    \/ Deliver
    \/ exit /\ UNCHANGED prev

Spec == Init /\ [][Next]_vars

\* the summary of the invocation that has just ended
\* (kind: "sync" for a run without --force, of which the rest is kept, and
\* "forced" for a run with --force; offered: some record was handed to
\* delivery; uncounted_2xx: some answer had a status of 200..299 that the loop
\* did not count as a success)
Summary ==
    IF force
    THEN [NoPrev EXCEPT !.kind = "forced"]
    ELSE [kind |-> "sync", limit |-> limit, dry_run |-> dry_run, saved |-> saved,
          offered |-> new_commands # <<>>,
          uncounted_2xx |-> \E k \in 1..Len(responses) :
                               responses[k] \in 200..299 /\ ~is_success(responses[k])]

\* repeated runs of `seanstash sync`, each remembering the one before it
NextTwice ==
    \/ \E lim \in Limits, f \in BOOLEAN, d \in BOOLEAN, t \in Times :
          run_sync(lim, f, d, t)
    \/ Deliver
    \/ exit /\ prev' = Summary

SpecTwice == Init /\ [][NextTwice]_vars

\* what is remembered of the invocation that has just ended when it was a
\* `sync` without --force, outside dry-run mode, whose posts were all answered
\* and none with a status the loop counts: its limit and the commands it
\* handed to delivery; of any other invocation, only that it was another
Attempt ==
    IF /\ mode = "sync"
       /\ ~force
       /\ ~dry_run
       /\ posted # <<>>
       /\ \A k \in 1..Len(responses) :
              responses[k] # RequestException /\ ~is_success(responses[k])
    THEN [kind |-> "rejected", limit |-> limit, commands |-> new_commands]
    ELSE [kind |-> "other", limit |-> 0, commands |-> <<>>]

\* repeated runs of `seanstash sync`, each remembering whether the one before
\* it had all its commands rejected
NextRetry ==
    \/ \E lim \in Limits, f \in BOOLEAN, d \in BOOLEAN, t \in Times :
          run_sync(lim, f, d, t)
    \/ Deliver
    \/ exit /\ prev' = Attempt

SpecRetry == Init /\ [][NextRetry]_vars

\* the values of --limit of the instance that races with the second one
RaceLimits == {1}

\* one `seanstash sync` and one seanstash "<command string>" running at the
\* same time against the same ledger file
NextRace ==
    \/ \E lim \in RaceLimits, f \in BOOLEAN, d \in BOOLEAN, t \in Times :
          run_sync(lim, f, d, t)
    \/ Deliver
    \/ \E command_string \in CommandStrings, f \in BOOLEAN, d \in BOOLEAN,
           t \in OtherTimes :
          other_run_command_sync(command_string, f, d, t)
    \/ \E status_code \in Statuses : other_post_response(status_code)
    \/ other_post_exception

SpecRace == Init /\ [][NextRace]_vars

\* the invocations on a file system that may cut a save of the ledger short
SpecInterrupt == InitInterrupt /\ [][Next]_vars


(***************************************************************************)
(* Vocabulary of the properties                                            *)
(***************************************************************************)
Done == pc = "done"

\* the hashes of a sequence of records
Hashes(commands) == {commands[k].hash : k \in 1..Len(commands)}

\* the command texts of a sequence of records, in order
Texts(commands) == [k \in 1..Len(commands) |-> commands[k].command]

\* the command texts passed to the transport, in order
PostedCode == [k \in 1..Len(posted) |-> posted[k].code]

\* a post of this invocation raised a transport exception
Aborted == \E k \in 1..Len(responses) : responses[k] = RequestException

\* the k-th post was answered, and not with a status the loop counts
Rejected(k) == responses[k] # RequestException /\ ~is_success(responses[k])

\* s is a prefix of t
IsPrefix(s, t) == Len(s) <= Len(t) /\ SubSeq(t, 1, Len(s)) = s

\* the previous and the current invocation are the same non-force `sync`
SameSyncTwice ==
    /\ mode = "sync"
    /\ ~force
    /\ prev.kind = "sync"
    /\ prev.limit = limit
    /\ prev.dry_run = dry_run

(***************************************************************************)
(* C1                                                                      *)
(***************************************************************************)
\* C1, as claimed: whenever `sync` without --force is run twice in succession
\* with the same history and configuration, the second run passes no command
\* to the transport.  (Stated for first runs in which every answer with a
\* status of 200..299 was counted as a success, so that a violation does not
\* rest on how such statuses are counted.)
C1_AsClaimed == (SameSyncTwice /\ ~prev.uncounted_2xx) => posted = <<>>

\* C1, amended: the second of two identical non-force `sync` runs passes no
\* command to the transport, and does not even enter the delivery loop with
\* a command to post, provided the first run wrote the ledger or had found
\* nothing new; in dry-run mode neither run posts anything.
C1_Idempotent ==
    SameSyncTwice =>
        /\ (prev.saved \/ ~prev.offered) => (new_commands = <<>> /\ posted = <<>>)
        /\ dry_run => posted = <<>>

\* the second run found every filtered record in the ledger the first run wrote
C1_Witness ==
    /\ Done
    /\ SameSyncTwice
    /\ prev.saved
    /\ Len(filtered_commands) >= 2
    /\ new_commands = <<>>
    /\ Hashes(filtered_commands) \subseteq Stored(ledger)

(***************************************************************************)
(* C2                                                                      *)
(***************************************************************************)
\* C2: after any invocation the hashes stored in the ledger file include all
\* the hashes stored before it.
C2_LedgerGrows == Stored(ledger_before) \subseteq Stored(ledger)

(***************************************************************************)
(* C3                                                                      *)
(***************************************************************************)
\* C3: after a non-dry-run invocation in which no post raised and delivery
\* counted at least one success, the ledger file holds the hash of every
\* attempted record, the rejected ones included, and every record handed to
\* delivery was attempted.
C3_PartialCommit ==
    (Done /\ ~dry_run /\ ~Aborted /\ success_count > 0) =>
        /\ PostedCode = Texts(new_commands)
        /\ Hashes(new_commands) \subseteq Stored(ledger)

\* three items, the second rejected, and its hash is newly in the ledger
C3_Witness ==
    /\ Done
    /\ ~dry_run
    /\ Len(responses) = 3
    /\ is_success(responses[1])
    /\ Rejected(2)
    /\ is_success(responses[3])
    /\ new_commands[2].hash \notin Stored(ledger_before)
    /\ new_commands[2].hash \in Stored(ledger)

(***************************************************************************)
(* C4                                                                      *)
(***************************************************************************)
\* C4: with --force every record that survives filtering is handed to delivery
\* and, in a run that is no dry run and in which no post raises, posted,
\* whether or not its hash is in the ledger; and once such a run has written
\* the ledger, the ledger holds the hash of every record posted.
C4_Force ==
    (force /\ pc # "idle") =>
        /\ new_commands = filtered_commands
        /\ (Done /\ ~dry_run /\ ~Aborted) => PostedCode = Texts(filtered_commands)
        /\ (Done /\ saved) =>
              /\ ~dry_run
              /\ {md5(PostedCode[k]) : k \in 1..Len(posted)} \subseteq Stored(ledger)

\* a forced run posted a record whose hash the ledger already held, and wrote
\* the ledger
C4_Witness ==
    /\ Done
    /\ force
    /\ saved
    /\ \E k \in 1..Len(posted) : md5(posted[k].code) \in Stored(ledger_before)
    /\ Hashes(filtered_commands) \subseteq Stored(ledger)

(***************************************************************************)
(* C5                                                                      *)
(***************************************************************************)
\* C5: in a dry run, whatever the mode and with or without --force, the
\* ledger file is what it was when the invocation began, and is not written.
C5_DryRunLedger == dry_run => (ledger = ledger_before /\ ~saved)

\* a forced dry run of a command string that reported success
C5_Witness ==
    /\ Done
    /\ dry_run
    /\ force
    /\ mode = "command"
    /\ success = "True"
    /\ Hashes(new_commands) \cap Stored(ledger) = {}

(***************************************************************************)
(* C6                                                                      *)
(***************************************************************************)
\* C6: in a dry run nothing is passed to the transport, the delivery loop is
\* never left waiting for a post, and the success count reported is the number
\* of records handed to delivery.
C6_DryRunNoPost ==
    dry_run =>
        /\ pc # "sending"
        /\ posted = <<>>
        /\ responses = <<>>
        /\ success_count = Len(new_commands)

\* a dry run over three records in two batches
C6_Witness ==
    /\ Done
    /\ dry_run
    /\ Len(new_commands) = 3
    /\ Len(batches) = 2
    /\ success_count = 3

(***************************************************************************)
(* C7                                                                      *)
(***************************************************************************)
\* C7: once a post has raised a transport exception nothing more is posted
\* (the exception is the last entry of the log and the invocation is over),
\* delivery has returned False, and the ledger file is what it was before the
\* invocation, whatever was delivered earlier in it.
C7_TransportAbort ==
    \A k \in 1..Len(responses) :
        responses[k] = RequestException =>
            /\ k = Len(responses)
            /\ Done
            /\ success = "False"
            /\ ~saved
            /\ ledger = ledger_before

\* the first post succeeded, the second raised, a third record in a later
\* batch was never posted, and the ledger is untouched
C7_Witness ==
    /\ Done
    /\ Len(new_commands) = 3
    /\ config.batch_size = 2
    /\ responses = <<200, RequestException>>
    /\ Len(posted) = 2
    /\ ledger = ledger_before

(***************************************************************************)
(* C8                                                                      *)
(***************************************************************************)
\* C8: a rejected post does not stop delivery: after a rejection of any but
\* the last record the loop is still posting or has already posted the next
\* record, and an invocation that is no dry run and in which no post raises
\* ends having posted every record handed to delivery.
C8_RejectionContinues ==
    /\ \A k \in 1..Len(responses) :
          (Rejected(k) /\ k < Len(new_commands)) =>
              (Len(responses) > k \/ pc = "sending")
    /\ (Done /\ ~dry_run /\ ~Aborted) => Len(posted) = Len(new_commands)

\* the first post was rejected with 401, and the records after it, in the same
\* and in the next batch, were posted
C8_Witness ==
    /\ Done
    /\ config.batch_size = 2
    /\ Len(responses) = 3
    /\ responses[1] = 401
    /\ ~Aborted
    /\ PostedCode = Texts(new_commands)

(***************************************************************************)
(* C9                                                                      *)
(***************************************************************************)
\* C9: the posts follow the order of the records (the log of posts is always
\* a prefix of them, and is all of them at the end of a run that is no dry run
\* and in which no post raised); the batches begun are consecutive slices of
\* batch_size records, only the last of all being allowed to be shorter.
C9_DeliveryOrder ==
    LET texts == Texts(new_commands)
        bs    == config.batch_size
    IN  /\ IsPrefix(PostedCode, texts)
        /\ (Done /\ ~dry_run /\ ~Aborted) => PostedCode = texts
        /\ \A b \in 1..Len(batches) :
              LET lo == (b - 1) * bs
              IN  /\ lo < Len(texts)
                  /\ Len(batches[b]) = Min(bs, Len(texts) - lo)
                  /\ \A k \in 1..Len(batches[b]) : batches[b][k].code = texts[lo + k]
        /\ (Done /\ ~Aborted /\ new_commands # <<>>) =>
              Len(batches) * bs >= Len(texts)

\* three records delivered in a batch of two and a batch of one
C9_Witness ==
    /\ Done
    /\ ~dry_run
    /\ ~Aborted
    /\ config.batch_size = 2
    /\ Len(batches) = 2
    /\ Len(batches[1]) = 2
    /\ Len(batches[2]) = 1
    /\ Len(posted) = 3

(***************************************************************************)
(* C10                                                                     *)
(***************************************************************************)
\* C10: an item is counted as delivered exactly when the status of its
\* response is one of 200..299: the success count of a run that is no dry run
\* is the number of its posts answered with such a status.
C10_SuccessIs2xx ==
    ~dry_run =>
        success_count =
            Cardinality({k \in 1..Len(responses) : responses[k] \in 200..299})

(***************************************************************************)
(* C11                                                                     *)
(***************************************************************************)
\* C11: at every moment, a save of the ledger cut short included, the ledger
\* file is either what it was when the invocation began or the complete new
\* content (the loaded hashes and those of the records handed to delivery):
\* it is never empty or partly written.
C11_AtomicWrite ==
    \/ ledger = ledger_before
    \/ ledger = save_sent_history(sent_hashes \cup Hashes(new_commands), now)

(***************************************************************************)
(* C12                                                                     *)
(***************************************************************************)
\* C12: two instances race on the ledger.  Whichever instance wrote the
\* ledger file last, the file holds exactly the hashes that instance loaded
\* and those of the records it handed to delivery, whatever the other
\* instance wrote in between: the last writer wins.
C12_LastWriterWins ==
    /\ (saved /\ ledger.last_updated = now) =>
          Stored(ledger) = sent_hashes \cup Hashes(new_commands)
    /\ (other.saved /\ ledger.last_updated = other.now) =>
          Stored(ledger) = other.sent_hashes \cup Hashes(other.new_commands)

\* both instances, neither with --force, loaded the same ledger, both
\* delivered and both saved, and a hash the first committed is missing from
\* the file the second left
C12_Witness ==
    /\ Done
    /\ saved
    /\ ~force
    /\ other.pc = "done"
    /\ other.saved
    /\ ~other.force
    /\ sent_hashes = other.sent_hashes
    /\ ledger.last_updated = other.now
    /\ \E h \in Hashes(new_commands) : h \notin Stored(ledger)

(***************************************************************************)
(* C13                                                                     *)
(***************************************************************************)
\* the number of commands of ~/.zsh_history: its non-blank lines
Total ==
    LET lines == home[".zsh_history"].lines
    IN  Cardinality({k \in 1..Len(lines) : strip(lines[k]) # <<>>})

\* the line numbers of the window over a history of Total commands
WindowMin == Max(1, Total - WindowSize + 1)
Window    == WindowMin..Total

\* C13: over a numbered history (the command at line k is the text of k), a
\* range 'start-end' with start <= end gives exactly the commands at the
\* lines of start..end that are in the window, in ascending order, the
\* absent lines being skipped and no error reported; a single number gives
\* the one command at that line when the line is in the window, and
\* otherwise nothing, with the error 'line not found' and the bounds of the
\* window reported.
C13_RangeResolution ==
    /\ (call.fn = "range" /\ call.start <= call.end) =>
          LET lo == Max(call.start, WindowMin)
              hi == Min(call.end, Total)
          IN  /\ Len(returned.commands) = Max(0, hi - lo + 1)
              /\ \A k \in 1..Len(returned.commands) :
                    returned.commands[k] = str(lo + k - 1)
              /\ returned.report.error = "none"
    /\ call.fn = "single" =>
          IF call.line_num \in Window
          THEN /\ returned.commands = <<str(call.line_num)>>
               /\ returned.report.error = "none"
          ELSE /\ returned.commands = <<>>
               /\ returned.report = Report("History line not found", WindowMin, Total)

\* the window covers 100..899 and '150-152' gave the commands at 150, 151 and
\* 152, in that order
C13_Witness ==
    /\ call.fn = "range"
    /\ call.history_spec = <<"!", "1", "5", "0", "-", "1", "5", "2">>
    /\ Window = 100..899
    /\ returned.commands = <<str(150), str(151), str(152)>>

(***************************************************************************)
(* C14                                                                     *)
(***************************************************************************)
\* C14: a range written with the larger bound first resolves to the same
\* commands, in ascending line order, as the range written with the smaller
\* bound first.
C14_EitherOrder ==
    (call.fn = "range" /\ call.start > call.end) =>
        LET lo == Max(call.end, WindowMin)
            hi == Min(call.start, Total)
        IN  /\ Len(returned.commands) = Max(0, hi - lo + 1)
            /\ \A k \in 1..Len(returned.commands) :
                  returned.commands[k] = str(lo + k - 1)

(***************************************************************************)
(* C15                                                                     *)
(***************************************************************************)
\* C15: over a history of Total >= 1 commands the line numbers of the window
\* are exactly the positive integers max(1, Total - 800 + 1) .. Total, the
\* window holds min(Total, 800) entries, never more than 800, and line k maps
\* to the k-th command of the file (here the text of k), the newest command
\* having the highest number.
C15_WindowShape ==
    (call.fn = "history_dict" /\ Total >= 1) =>
        /\ DOMAIN returned = Max(1, Total - WindowSize + 1)..Total
        /\ \A k \in DOMAIN returned : k >= 1 /\ returned[k] = str(k)
        /\ Cardinality(DOMAIN returned) = Min(Total, WindowSize)
        /\ Cardinality(DOMAIN returned) <= WindowSize
        /\ Total \in DOMAIN returned

\* a history of 899 commands is indexed as lines 100..899
C15_Witness ==
    /\ call.fn = "history_dict"
    /\ Total = 899
    /\ DOMAIN returned = 100..899
    /\ returned[100] = <<"1", "0", "0">>
    /\ returned[899] = <<"8", "9", "9">>
    /\ 99 \notin DOMAIN returned

(***************************************************************************)
(* C16                                                                     *)
(***************************************************************************)
\* a command is kept under a configuration: its trimmed text is not shorter
\* than min_length and no exclusion pattern is found anywhere in it, case
\* being ignored
Kept(cmd, cfg) ==
    /\ Len(strip(cmd)) >= cfg.min_length
    /\ \A k \in 1..Len(cfg.exclude_patterns) :
          ~re_search(strip(cfg.exclude_patterns[k]), strip(cmd))

\* the positions of a list whose command is kept
KeptAt(commands, cfg) == {k \in 1..Len(commands) : Kept(commands[k], cfg)}

\* C16: filter_commands returns exactly one record for each input command
\* that is kept and none for any other, in the order of the input, and the
\* text of each record is the trimmed input.
C16_Filter ==
    call.fn = "filter_commands" =>
        LET kept == KeptAt(call.commands, call.config)
        IN  /\ Len(returned) = Cardinality(kept)
            /\ \A n \in 1..Len(returned) :
                  \E k \in kept :
                      /\ Cardinality({m \in kept : m <= k}) = n
                      /\ returned[n].command = strip(call.commands[k])

\* under the initial configuration 'ls' was dropped and ' git ' was kept as
\* 'git', its length being exactly min_length
C16_Witness ==
    /\ call.fn = "filter_commands"
    /\ call.config = Config(1)
    /\ call.commands = <<LS, <<" ", "g", "i", "t", " ">>>>
    /\ Len(returned) = 1
    /\ returned[1].command = GIT

(***************************************************************************)
(* C17                                                                     *)
(***************************************************************************)
\* the lines of the history file that get_shell_history reads: the first of
\* its candidates that exists
HistoryLines ==
    IF \E k \in 1..Len(history_files) : home[history_files[k]].exists
    THEN home[history_files[CHOOSE k \in 1..Len(history_files) :
                  /\ home[history_files[k]].exists
                  /\ \A m \in 1..(k - 1) : ~home[history_files[m]].exists]].lines
    ELSE <<>>

\* s is a suffix of t
IsSuffix(s, t) == Len(s) <= Len(t) /\ SubSeq(t, Len(t) - Len(s) + 1, Len(t)) = s

\* C17: for every limit >= 0, get_shell_history(limit) returns at most limit
\* commands, and they are the most recent entries of the file, oldest first.
C17_RecentBound ==
    (call.fn = "get_shell_history" /\ call.limit >= 0) =>
        /\ Len(returned) <= call.limit
        /\ IsSuffix(returned, recent_lines(HistoryLines))

(***************************************************************************)
(* C18                                                                     *)
(***************************************************************************)
\* the history specification without its '!'
GivenSpec == lstrip_bang(argument)

\* the specification is malformed: a single specification that is no number,
\* or a range whose bounds do not both parse as integers
Malformed ==
    IF Contains(GivenSpec, "-")
    THEN LET parts == split(GivenSpec, "-")
         IN  ~(Len(parts) = 2 /\ IsInt(parts[1]) /\ IsInt(parts[2]))
    ELSE ~IsInt(GivenSpec)

\* the specification is a single line number that is not in the window
LineNotInWindow ==
    /\ ~Contains(GivenSpec, "-")
    /\ IsInt(GivenSpec)
    /\ IntOf(GivenSpec) \notin Window

\* ~/.zsh_history is missing or holds no command
SourceUnavailable == ~home[".zsh_history"].exists \/ Total = 0

\* C18: when the history specification is malformed, the requested line is
\* not in the window, or ~/.zsh_history is missing or empty, run_specific_sync
\* hands nothing to delivery, posts nothing, and leaves the ledger file as
\* it was, unwritten.
C18_InputErrors ==
    (mode = "specific" /\ (Malformed \/ LineNotInWindow \/ SourceUnavailable)) =>
        /\ Done
        /\ new_commands = <<>>
        /\ posted = <<>>
        /\ responses = <<>>
        /\ ~saved
        /\ ledger = ledger_before

\* '!1-x' over a history whose line 1 is 'git', with no ledger yet: the run
\* ended without a post and without a ledger
C18_Witness ==
    /\ Done
    /\ mode = "specific"
    /\ argument = <<"!", "1", "-", "x">>
    /\ home[".zsh_history"].lines = <<GIT>>
    /\ ledger_before = AbsentLedger
    /\ posted = <<>>
    /\ ledger = AbsentLedger

(***************************************************************************)
(* C19                                                                     *)
(***************************************************************************)
\* the records of the two calls of filter_commands
Records ==
    Range(returned) \cup (IF earlier.fn = "none" THEN {} ELSE Range(earlier.returned))

\* C19: any two records that filter_commands produced, in the same call or
\* in two calls made at different times, in different directories or under
\* different configurations, have equal hashes when their trimmed texts are
\* equal, and the hash of a record is the digest of its text alone.
C19_HashOfText ==
    call.fn = "filter_commands" =>
        \A r1 \in Records, r2 \in Records :
            /\ r1.command = r2.command => r1.hash = r2.hash
            /\ r1.hash = md5(r1.command)

\* two calls under different configurations, at different times and in
\* different directories, on ' git ' and on 'git': the records differ in
\* timestamp and directory and have the same hash
C19_Witness ==
    /\ call.fn = "filter_commands"
    /\ earlier.fn = "earlier"
    /\ earlier.config # call.config
    /\ earlier.commands = <<<<" ", "g", "i", "t", " ">>>>
    /\ call.commands = <<GIT>>
    /\ Len(earlier.returned) = 1
    /\ Len(returned) = 1
    /\ earlier.returned[1].timestamp # returned[1].timestamp
    /\ earlier.returned[1].working_dir # returned[1].working_dir
    /\ earlier.returned[1].hash = returned[1].hash

(***************************************************************************)
(* C20                                                                     *)
(***************************************************************************)
\* the line without its leading and trailing whitespace
Trimmed(line) ==
    LET n == Len(line)
        a == CHOOSE a \in 1..(n + 1) :
                 /\ \A k \in 1..(a - 1) : IsSpace(line[k])
                 /\ a <= n => ~IsSpace(line[a])
        b == CHOOSE b \in 0..n :
                 /\ \A k \in (b + 1)..n : IsSpace(line[k])
                 /\ b >= 1 => ~IsSpace(line[b])
    IN  SubSeq(line, a, b)

\* the command a line stands for, as a list of none or one
CommandOf(line) ==
    LET t == Trimmed(line)
    IN  IF t = <<>> THEN <<>>
        ELSE IF Len(t) >= 2 /\ t[1] = ":" /\ t[2] = " " /\ \E p \in 1..Len(t) : t[p] = ";"
             THEN LET p == CHOOSE p \in 1..Len(t) :
                               t[p] = ";" /\ \A q \in 1..(p - 1) : t[q] # ";"
                  IN  <<SubSeq(t, p + 1, Len(t))>>
             ELSE <<t>>

\* C20: in both readers a non-blank trimmed line that begins with ': ' and
\* contains ';' yields exactly what follows its first ';', any other
\* non-blank line yields the whole trimmed line, and a blank line yields no
\* command.
C20_LineFormat ==
    call.fn = "line" =>
        /\ returned.recent = CommandOf(call.line)
        /\ returned.specific = CommandOf(call.line)

\* both readers took ' git' from the line ': 1:0; git'
C20_Witness ==
    /\ call.fn = "line"
    /\ call.line = EXT_GIT
    /\ returned.recent = <<<<" ", "g", "i", "t">>>>
    /\ returned.specific = returned.recent

(***************************************************************************)
(* C21                                                                     *)
(***************************************************************************)
\* the ledger file the invocation found was absent or corrupt
UnreadableLedger == ledger_before.kind \in {"absent", "corrupt"}

\* C21: an absent or corrupt ledger file is never fatal: load_sent_history
\* returns the empty set, the invocation goes on with every filtered record as
\* new, and when it commits (its delivery succeeded outside dry-run mode) it
\* leaves a well-formed ledger file that holds exactly the hashes of the
\* records it handed to delivery; when it does not commit, the file is as it
\* was.
C21_UnreadableLedger ==
    (pc # "idle" /\ UnreadableLedger) =>
        /\ load_sent_history(ledger_before) = {}
        /\ sent_hashes = {}
        /\ new_commands = filtered_commands
        /\ (Done /\ saved) =>
               /\ ledger.kind = "json"
               /\ ledger.sent_hashes = Hashes(new_commands)
               /\ ledger.last_updated = now
        /\ ~saved => ledger = ledger_before

\* a run without --force found a corrupt ledger, posted its two records and
\* committed
C21_Witness ==
    /\ Done
    /\ ~force
    /\ ledger_before = CorruptLedger
    /\ Len(posted) = 2
    /\ saved
    /\ ledger.kind = "json"
    /\ Cardinality(ledger.sent_hashes) = 2

(***************************************************************************)
(* C22                                                                     *)
(***************************************************************************)
\* every post of this invocation was answered, and none with a status the
\* loop counts
AllRejected ==
    /\ ~dry_run
    /\ posted # <<>>
    /\ \A k \in 1..Len(responses) : Rejected(k)

\* this `sync` without --force follows one, over the same history and with the
\* same limit, whose commands were all rejected
AfterRejectedSync ==
    /\ pc # "idle"
    /\ mode = "sync"
    /\ ~force
    /\ prev.kind = "rejected"
    /\ prev.limit = limit

\* C22: when every item a run submits is rejected by the server (success
\* count 0), the run does not write the ledger file; so the next run without
\* --force over the same history finds the same commands new and hands them
\* to delivery again, and posts each of them unless it is a dry run or a post
\* raises.
C22_RetryAfterRejection ==
    /\ (Done /\ AllRejected) =>
           /\ success_count = 0
           /\ success = "False"
           /\ ~saved
           /\ ledger = ledger_before
    /\ AfterRejectedSync =>
           /\ Texts(new_commands) = Texts(prev.commands)
           /\ Hashes(new_commands) = Hashes(prev.commands)
           /\ (Done /\ ~dry_run /\ ~Aborted) => PostedCode = Texts(prev.commands)

\* two commands were rejected in one run and posted again in the next
C22_Witness ==
    /\ Done
    /\ AfterRejectedSync
    /\ ~dry_run
    /\ Len(prev.commands) = 2
    /\ PostedCode = Texts(prev.commands)
    /\ saved

(***************************************************************************)
(* C23                                                                     *)
(***************************************************************************)
\* the content hashes passed to the transport, in order
PostedHashes == [k \in 1..Len(posted) |-> md5(posted[k].code)]

\* C23: within one invocation without --force, in sync or in range mode, no
\* content hash is passed to the transport more than once: history entries
\* with the same trimmed text make one submission.
C23_SingleSubmission ==
    (~force /\ mode \in {"sync", "specific"}) =>
        \A a, b \in 1..Len(posted) : PostedHashes[a] = PostedHashes[b] => a = b

(***************************************************************************)
(* C24                                                                     *)
(***************************************************************************)
\* the trimmed texts of the commands the three modes can be given: those of
\* the history lines, of the session and of the command line
InputTexts ==
    {strip(c) : c \in CommandStrings
                    \cup UNION {Range(recent_line(l)) : l \in RawLines}
                    \cup Range(session_line(<<" ", "1", " ", " ", "m", "a", "n">>))}

\* the filters of the configuration, which no invocation changes
Filters == Config(1)

\* the input texts the filters reject, and their hashes
Unwanted == {c \in InputTexts : ~Kept(c, Filters)}
UnwantedHashes == {md5(c) : c \in Unwanted}

\* C24: in every mode, with or without --force and --dry-run, a command whose
\* trimmed text is shorter than min_length or in which an exclusion pattern is
\* found is never handed to delivery, never passed to the transport, and its
\* hash is never in the ledger file; every text passed to the transport is
\* one the configuration keeps.
C24_FilteredNeverSent ==
    /\ config.min_length = Filters.min_length
    /\ config.exclude_patterns = Filters.exclude_patterns
    /\ \A k \in 1..Len(new_commands) :
          new_commands[k].command \in InputTexts \ Unwanted
    /\ \A k \in 1..Len(posted) : posted[k].code \in InputTexts \ Unwanted
    /\ Stored(ledger) \cap UnwantedHashes = {}
    /\ sent_hashes \cap UnwantedHashes = {}

\* a forced range over an excluded line and a kept one posted the kept one
\* alone and committed
C24_Witness ==
    /\ Done
    /\ mode = "specific"
    /\ force
    /\ home[".zsh_history"].lines = <<LS, GIT>>
    /\ argument = <<"!", "1", "-", "2">>
    /\ LS \in Unwanted
    /\ PostedCode = <<GIT>>
    /\ saved
    /\ Stored(ledger) = {md5(GIT)}

====
